---- MODULE Spec2Model ----
(***************************************************************************)
(* Model of the multi-client LoRA training run: main (src/src/main.py) and *)
(* the round loop train_lora (src/src/optim/lora.py).                      *)
(*                                                                         *)
(* One behaviour is one process running main(args).  The state is main's   *)
(* and train_lora's local variables, the per-client objects (model,        *)
(* optimizer, schedule), the files main looks at, and the position pc of   *)
(* the control thread.  Tensors are abstracted: a client's adapter         *)
(* parameters are the call that produced them and the optimizer steps     *)
(* applied since, a gradient is the set of micro-steps that contributed to *)
(* it, a loss is the tag of the micro-step that produced it.               *)
(* aggregate, eval and get_batch live in optim/strategies.py and           *)
(* optim/utils.py, which are not part of the available sources: the model  *)
(* has their calls (they return or raise) and leaves their results opaque. *)
(***************************************************************************)
EXTENDS Integers, Sequences, FiniteSets

\* ---------------------------------------------------------------- bounds
MaxClients == 2
MaxIter == 4
MaxAcc == 2
MaxFreq == 2
MaxPre == 3

\* ------------------------------------------------------- configuration
\* args.scheduler: 'none', one of ['cos', 'linear'], or anything else.
Schedulers == {"none", "cos", "unknown"}
\* args.model: 'lora' or anything else.
Models == {"lora", "unknown"}
\* args.dataset: one of the three names get_dataset_from_args knows (they differ in
\* the path only), or anything else.
Datasets == {"agnews", "unknown"}
\* args.grad_clip: 0 (0.0, no clipping) or the bound on the gradient norm.
ClipNorms == {0, 1}

\* The accumulation count and the two frequencies take their smallest value and the
\* bound.
Configs ==
  [num_clients : 1..MaxClients,
   iterations : 0..MaxIter,
   acc_steps : {1, MaxAcc},
   eval_freq : {1, MaxFreq},
   trust_freq : {1, MaxFreq},
   pretraining_rounds : 1..MaxPre,
   scheduler : Schedulers,
   model : Models,
   dataset : Datasets,
   grad_clip : ClipNorms,
   wandb : BOOLEAN]

VARIABLES
  args,          \* the run configuration (Namespace), fixed during a run
  is_master,     \* distributed_backend.is_master_process()
  ckpt_dir,      \* os.path.exists(ckpt_path)
  summary,       \* summary.json at ckpt_path: "absent", "old" (there when main starts),
                 \* "partial" (opened for writing by this run), "new" (written in full)
  summary_writes,\* how many times this run opened summary.json for writing
  train_calls,   \* how many times main invoked the training routine
  pc,            \* position of the control thread
  err,           \* the error that ended the run ("none" while none was raised)
  ci,            \* loop index i of the for-loop the thread is in
  clients,       \* main's list: per built client its schedule ("onecycle" or "None")
  itr,           \* itr[i]: client i's round counter
  substep,       \* substep[i]: client i's micro-step counter
  opt_steps,     \* number of opt.step() calls on client i's optimizer
  sched_steps,   \* number of scheduler.step() calls on client i's schedule
  mode,          \* "train" / "eval": the model's training flag
  grads,         \* client i's accumulated gradient: the micro-steps <<round, idx>> in it
                 \* and its norm (every micro-step's scaled gradient counts 1)
  applied,       \* the gradient client i's last opt.step() applied
  params,        \* client i's adapter parameters: the call that produced them and the
                 \* norm of the optimizer steps applied to them since
  loss,          \* train_lora's local variable loss: <<client, round, idx>> of the micro-step
  stats,         \* the four metric lists per client
  evals,         \* history: evals[i] lists the rounds in which the Evaluator scored client i
  agg_rounds,    \* history: the rounds (itr[-1]) at which aggregate was called, in order
  agg_done,      \* history: the rounds whose aggregate call has returned, in order
  mean_log       \* history: what each cross-client mean handed to wandb.log was taken over

vars == <<args, is_master, ckpt_dir, summary, summary_writes, train_calls, pc, err, ci,
          clients, itr, substep, opt_steps, sched_steps, mode, grads, applied, params,
          loss, stats, evals, agg_rounds, agg_done, mean_log>>

mainVars == <<args, is_master>>
fsVars == <<ckpt_dir, summary, summary_writes>>
counterVars == <<itr, substep, opt_steps, sched_steps>>
tensorVars == <<grads, applied, params, loss>>
aggVars == <<agg_rounds, agg_done>>

Clients == 0..(args.num_clients - 1)
\* itr[-1]: the index of the last client
Last == args.num_clients - 1

\* The adapter a freshly built client starts from: get_model gives every client its own.
InitialParams(i) == [origin |-> <<"get_model", i>>, moved |-> 0]

NoLoss == <<>>
\* A model whose gradients are None (fresh, or after zero_grad(set_to_none=True)).
NoGrad == [steps |-> {}, norm |-> 0]

\* ------------------------------------------------------------------ Init
Init ==
  /\ args \in Configs
  /\ is_master \in BOOLEAN
  /\ ckpt_dir \in BOOLEAN
  /\ summary \in (IF ckpt_dir THEN {"absent", "old"} ELSE {"absent"})
  /\ summary_writes = 0
  /\ train_calls = 0
  /\ pc = "setup"
  /\ err = "none"
  /\ ci = 0
  /\ clients = <<>>
  /\ itr = <<>>
  /\ substep = <<>>
  /\ opt_steps = [i \in Clients |-> 0]
  /\ sched_steps = [i \in Clients |-> 0]
  /\ mode = [i \in Clients |-> "train"]
  /\ grads = [i \in Clients |-> NoGrad]
  /\ applied = [i \in Clients |-> NoGrad]
  /\ params = [i \in Clients |-> InitialParams(i)]
  /\ loss = NoLoss
  /\ stats = <<>>
  /\ evals = [i \in Clients |-> <<>>]
  /\ agg_done = <<>>
  /\ agg_rounds = <<>>
  /\ mean_log = <<>>

\* An exception is raised and nothing catches it: it propagates out of main.
Raise(e) ==
  /\ pc' = "raised"
  /\ err' = e

\* ------------------------------------------------------------------ main
\* Lines 46-62: the backend is made, the device is selected and the three random
\* generators are seeded; nothing of the run's state is touched.
Setup ==
  /\ pc = "setup"
  /\ pc' = "dataset"
  /\ UNCHANGED <<mainVars, fsVars, err, train_calls, ci, clients, counterVars, mode,
                 tensorVars, stats, evals, mean_log, aggVars>>

\* Lines 46-62: one of these calls raises (the backend, torch.device at line 53,
\* a seed that random.seed or np.random.seed rejects at lines 59-60).
SetupRaise ==
  /\ pc = "setup"
  /\ Raise("setup")
  /\ UNCHANGED <<mainVars, fsVars, train_calls, ci, clients, counterVars, mode,
                 tensorVars, stats, evals, mean_log, aggVars>>

\* Lines 27-34: get_dataset_from_args binds data_path in one of three branches and has
\* no else.
KnownDataset == args.dataset = "agnews"

\* Line 64: data_path = get_dataset_from_args(args); with an unknown name the return
\* statement reads the unbound local data_path (UnboundLocalError).
GetDataset ==
  /\ pc = "dataset"
  /\ IF KnownDataset
       THEN /\ pc' = "build"
            /\ err' = err
       ELSE Raise("unbound_data_path")
  /\ UNCHANGED <<mainVars, fsVars, train_calls, ci, clients, counterVars, mode,
                 tensorVars, stats, evals, mean_log, aggVars>>

\* One iteration of main's client-building loop (lines 68-108).
SchedulerFor(name) ==
  IF name = "none" THEN "None" ELSE "onecycle"

BuildClient ==
  /\ pc = "build"
  /\ ci < args.num_clients
  /\ IF args.scheduler = "none" \/ args.scheduler = "cos"
       THEN IF args.scheduler = "cos" /\ args.iterations <= 0
              \* OneCycleLR(total_steps=args.iterations) rejects total_steps <= 0
              THEN /\ Raise("total_steps")
                   /\ UNCHANGED <<ci, clients>>
              ELSE /\ clients' = Append(clients, SchedulerFor(args.scheduler))
                   /\ ci' = ci + 1
                   /\ pc' = IF ci + 1 = args.num_clients THEN "ckpt" ELSE "build"
                   /\ err' = err
       ELSE /\ Raise("unknown_scheduler")
            /\ UNCHANGED <<ci, clients>>
  /\ UNCHANGED <<mainVars, fsVars, train_calls, counterVars, mode, tensorVars, stats, evals, mean_log, aggVars>>

\* Lines 69-93: get_model(args).to(device), transform_model or the optimizer's
\* constructor raises while client ci is built.
BuildClientRaise ==
  /\ pc = "build"
  /\ ci < args.num_clients
  /\ Raise("build_client")
  /\ UNCHANGED <<mainVars, fsVars, train_calls, ci, clients, counterVars, mode,
                 tensorVars, stats, evals, mean_log, aggVars>>

\* Variant: the completed run's summary is never detected.
AlreadyCompletedUndetected == FALSE

\* Line 122: os.path.isfile(summary.json)
AlreadyCompleted == summary # "absent"

\* Lines 112-116: on the master with args.wandb set, wandb.init is called before
\* the run's directory is looked at; it raises.
WandbInitRaise ==
  /\ pc = "ckpt"
  /\ is_master
  /\ args.wandb
  /\ Raise("wandb_init")
  /\ UNCHANGED <<mainVars, fsVars, train_calls, ci, clients, counterVars, mode,
                 tensorVars, stats, evals, mean_log, aggVars>>

\* Lines 119-121: the run's directory is missing and os.makedirs raises on the master.
MakedirsRaise ==
  /\ pc = "ckpt"
  /\ ~ckpt_dir
  /\ is_master
  /\ Raise("makedirs")
  /\ UNCHANGED <<mainVars, fsVars, train_calls, ci, clients, counterVars, mode,
                 tensorVars, stats, evals, mean_log, aggVars>>

\* Lines 110-124: wandb.init returned (or was not called); create the run's directory,
\* or stop when the run was completed.
CheckCkpt ==
  /\ pc = "ckpt"
  /\ IF ~ckpt_dir
       THEN /\ ckpt_dir' = (IF is_master THEN TRUE ELSE ckpt_dir)
            /\ pc' = "select"
       ELSE /\ ckpt_dir' = ckpt_dir
            /\ pc' = IF AlreadyCompleted THEN "exit0" ELSE "select"
  /\ UNCHANGED <<mainVars, summary, summary_writes, train_calls, err, ci, clients,
                 counterVars, mode, tensorVars, stats, evals, mean_log, aggVars>>

\* Lines 126-136: pick the training routine and call it.
SelectTrain ==
  /\ pc = "select"
  /\ IF args.model = "lora"
       THEN /\ pc' = "init"
            /\ train_calls' = train_calls + 1
            /\ err' = err
       ELSE /\ Raise("unknown_model")
            /\ train_calls' = train_calls
  /\ UNCHANGED <<mainVars, fsVars, ci, clients, counterVars, mode, tensorVars, stats, evals, mean_log, aggVars>>

\* Lines 138-142: after train returned, the master opens summary.json for writing,
\* which creates or truncates the file; the other processes go on to finalize.
OpenSummary ==
  /\ pc = "returned"
  /\ IF is_master
       THEN /\ summary' = "partial"
            /\ summary_writes' = summary_writes + 1
            /\ pc' = "writing"
       ELSE /\ UNCHANGED <<summary, summary_writes>>
            /\ pc' = "finalize"
  /\ UNCHANGED <<mainVars, ckpt_dir, train_calls, err, ci, clients, counterVars, mode,
                 tensorVars, stats, evals, mean_log, aggVars>>

\* Line 142: open raises on the master; the file is not touched.
OpenSummaryRaise ==
  /\ pc = "returned"
  /\ is_master
  /\ Raise("summary_open")
  /\ UNCHANGED <<mainVars, fsVars, train_calls, ci, clients, counterVars, mode,
                 tensorVars, stats, evals, mean_log, aggVars>>

\* Line 143: json.dump writes the statistics and the file is closed.
WriteSummary ==
  /\ pc = "writing"
  /\ summary' = "new"
  /\ pc' = "finalize"
  /\ UNCHANGED <<mainVars, ckpt_dir, summary_writes, train_calls, err, ci, clients,
                 counterVars, mode, tensorVars, stats, evals, mean_log, aggVars>>

\* Line 143: json.dump raises; the file stays as far as it was written.
WriteSummaryRaise ==
  /\ pc = "writing"
  /\ Raise("summary_write")
  /\ UNCHANGED <<mainVars, fsVars, train_calls, ci, clients, counterVars, mode,
                 tensorVars, stats, evals, mean_log, aggVars>>

\* Line 144: distributed_backend.finalize() returns and main ends.
Finalize ==
  /\ pc = "finalize"
  /\ pc' = "done"
  /\ UNCHANGED <<mainVars, fsVars, train_calls, err, ci, clients, counterVars, mode,
                 tensorVars, stats, evals, mean_log, aggVars>>

\* Line 144: distributed_backend.finalize() raises.
FinalizeRaise ==
  /\ pc = "finalize"
  /\ Raise("finalize")
  /\ UNCHANGED <<mainVars, fsVars, train_calls, ci, clients, counterVars, mode,
                 tensorVars, stats, evals, mean_log, aggVars>>

\* train has returned to main (lines 138-144).
AfterTrain == {"returned", "writing", "finalize", "done"}
\* The errors main can raise after train returned.
AfterTrainErrors == {"summary_open", "summary_write", "finalize"}

\* The process's exit status once main has ended.
ExitStatus ==
  IF pc \in {"exit0", "done"} THEN 0 ELSE 1

Terminated == pc \in {"exit0", "done", "raised"}

\* ------------------------------------------------------------ train_lora
\* Lines 28-56: the counters, the metric lists, and every model in training mode.
TrainInit ==
  /\ pc = "init"
  /\ itr' = [i \in Clients |-> 0]
  /\ substep' = [i \in Clients |-> 0]
  /\ stats' = [train_loss |-> [i \in Clients |-> <<>>],
               val_loss |-> [i \in Clients |-> <<>>],
               val_pp |-> [i \in Clients |-> <<>>],
               val_acc |-> [i \in Clients |-> <<>>]]
  /\ mode' = [i \in Clients |-> "train"]
  /\ pc' = "while"
  /\ UNCHANGED <<mainVars, fsVars, train_calls, err, ci, clients, opt_steps, sched_steps,
                 tensorVars, evals, mean_log, aggVars>>

\* Lines 28-45: the counters and the metric lists are bound, then np.memmap raises
\* on a shard file that is missing or unreadable (lines 40-45).
TrainInitRaise ==
  /\ pc = "init"
  /\ itr' = [i \in Clients |-> 0]
  /\ substep' = [i \in Clients |-> 0]
  /\ stats' = [train_loss |-> [i \in Clients |-> <<>>],
               val_loss |-> [i \in Clients |-> <<>>],
               val_pp |-> [i \in Clients |-> <<>>],
               val_acc |-> [i \in Clients |-> <<>>]]
  /\ Raise("data_shard")
  /\ UNCHANGED <<mainVars, fsVars, train_calls, ci, clients, opt_steps, sched_steps,
                 mode, tensorVars, evals, mean_log, aggVars>>

\* Variant: the loop condition with <= in place of <.
WhileGuardInclusive == itr[Last] <= args.iterations

\* Line 59: the loop condition, on the last client's counter.
WhileGuard == itr[Last] < args.iterations

LoopCheck ==
  /\ pc = "while"
  /\ IF WhileGuard
       THEN /\ pc' = "local"
            /\ ci' = 0
       ELSE /\ pc' = "returned"
            /\ ci' = ci
  /\ UNCHANGED <<mainVars, fsVars, train_calls, err, clients, counterVars, mode,
                 tensorVars, stats, evals, mean_log, aggVars>>

\* Lines 64-73: micro-steps m .. stop-1 of client i's accumulation window.  Each one
\* computes a loss on a fresh batch, adds its gradient to the client's and counts.
RECURSIVE Accumulate(_, _, _, _)
Accumulate(i, m, stop, acc) ==
  IF m >= stop
    THEN acc
    ELSE Accumulate(i, m + 1, stop,
                    [substep |-> acc.substep + 1,
                     grad |-> [steps |-> acc.grad.steps \cup {<<itr[i] + 1, m>>},
                               norm |-> acc.grad.norm + 1],
                     loss |-> <<i, itr[i] + 1, m>>])

\* Lines 75-76: with a bound configured, clip_grad_norm_ rescales the gradient in
\* place to the bound when its norm exceeds it; 0.0 means no clipping.
ClipGradNorm(g, max_norm) ==
  IF max_norm # 0 /\ g.norm > max_norm THEN [g EXCEPT !.norm = max_norm] ELSE g

\* Line 77: opt.step() moves the parameters by the gradient.
OptimizerStep(p, g) == [p EXCEPT !.moved = p.moved + g.norm]

\* Variant: the increment lands on the first client's counter whoever stepped.
AdvanceFirst(counter, i) == [counter EXCEPT ![0] = counter[0] + 1]

\* Line 79: itr[i] += 1
AdvanceRound(counter, i) == [counter EXCEPT ![i] = counter[i] + 1]

\* Variant: the aggregation guard placed inside the per-client loop.
AfterLocalGuardInsideLoop(i) == "agg_guard"

\* Lines 60 and 81: after client i's step the for-loop takes the next client; after
\* the last one the loop is left and the aggregation guard is evaluated.
AfterLocal(i) == IF i = Last THEN "agg_guard" ELSE "local"

\* Lines 60-79: client ci's local step of this round.
LocalStep ==
  /\ pc = "local"
  /\ LET i == ci
         acc == Accumulate(i, 0, args.acc_steps,
                           [substep |-> substep[i], grad |-> grads[i], loss |-> loss])
         clipped == ClipGradNorm(acc.grad, args.grad_clip)
     IN /\ substep' = [substep EXCEPT ![i] = acc.substep]
        /\ grads' = [grads EXCEPT ![i] = clipped]
        /\ loss' = acc.loss
        /\ params' = [params EXCEPT ![i] = OptimizerStep(params[i], clipped)]
        /\ applied' = [applied EXCEPT ![i] = clipped]
        /\ opt_steps' = [opt_steps EXCEPT ![i] = opt_steps[i] + 1]
        /\ IF clients[i + 1] = "None"
             \* scheduler.step() on None
             THEN /\ Raise("scheduler_none")
                  /\ UNCHANGED <<sched_steps, itr, ci>>
             ELSE /\ sched_steps' = [sched_steps EXCEPT ![i] = sched_steps[i] + 1]
                  /\ itr' = AdvanceRound(itr, i)
                  /\ ci' = IF i = Last THEN 0 ELSE i + 1
                  /\ pc' = AfterLocal(i)
                  /\ err' = err
  /\ UNCHANGED <<mainVars, fsVars, train_calls, clients, mode, stats, evals, mean_log, aggVars>>

\* Lines 65-72: micro-step m raises, in get_batch or the forward pass (lines 65-69,
\* before loss is rebound) or in the backward pass (line 72, after line 71 rebound
\* loss to this micro-step's).  Its gradient is not added and substep not counted.
LocalStepRaise ==
  /\ pc = "local"
  /\ \E m \in 0..(args.acc_steps - 1), in_backward \in BOOLEAN :
       LET i == ci
           acc == Accumulate(i, 0, m,
                             [substep |-> substep[i], grad |-> grads[i], loss |-> loss])
       IN /\ substep' = [substep EXCEPT ![i] = acc.substep]
          /\ grads' = [grads EXCEPT ![i] = acc.grad]
          /\ loss' = IF in_backward THEN <<i, itr[i] + 1, m>> ELSE acc.loss
  /\ Raise("local_step")
  /\ UNCHANGED <<mainVars, fsVars, train_calls, ci, clients, itr, opt_steps, sched_steps,
                 mode, applied, params, stats, evals, mean_log, aggVars>>

\* Lines 64-77: the k micro-steps are done, then clip_grad_norm_ (line 76, before it
\* rescaled the gradient) or opt.step() (line 77, on the clipped gradient) raises:
\* no optimizer step, schedule step or counter advance is made.
OptStepRaise ==
  /\ pc = "local"
  /\ \E in_clip \in BOOLEAN :
       LET i == ci
           acc == Accumulate(i, 0, args.acc_steps,
                             [substep |-> substep[i], grad |-> grads[i], loss |-> loss])
       IN /\ in_clip => args.grad_clip # 0
          /\ substep' = [substep EXCEPT ![i] = acc.substep]
          /\ grads' = [grads EXCEPT ![i] = IF in_clip
                                             THEN acc.grad
                                             ELSE ClipGradNorm(acc.grad, args.grad_clip)]
          /\ loss' = acc.loss
  /\ Raise("opt_step")
  /\ UNCHANGED <<mainVars, fsVars, train_calls, ci, clients, itr, opt_steps, sched_steps,
                 mode, applied, params, stats, evals, mean_log, aggVars>>

\* Variants of the guard: without the pretraining threshold, and with the threshold
\* taken as pretraining_rounds instead of pretraining_rounds - 1.
AggregationGuardFrequencyOnly ==
  itr[Last] % args.trust_freq = 0

AggregationGuardOffByOne ==
  /\ itr[Last] % args.trust_freq = 0
  /\ itr[Last] >= args.pretraining_rounds

\* Line 82: the aggregation guard, on the last client's counter.
AggregationGuard ==
  /\ itr[Last] % args.trust_freq = 0
  /\ itr[Last] >= args.pretraining_rounds - 1

\* Lines 81-83.
AggGuard ==
  /\ pc = "agg_guard"
  /\ IF AggregationGuard
       THEN /\ pc' = "aggregate"
            /\ agg_rounds' = Append(agg_rounds, itr[Last])
       ELSE /\ pc' = "eval"
            /\ agg_rounds' = agg_rounds
  /\ UNCHANGED <<mainVars, fsVars, train_calls, err, ci, clients, counterVars, mode,
                 tensorVars, stats, evals, mean_log, agg_done>>

\* ------------------------------------------------------------- aggregate
\* The parameters the aggregate call of round r leaves in a client.  What they are is
\* computed in optim/strategies.py; the model only records which call produced them.
AggregateResult(r) == [origin |-> <<"aggregate", r>>, moved |-> 0]

\* Line 83: the aggregate call returns; it has rewritten the clients' parameters in
\* place.
AggReturn ==
  /\ pc = "aggregate"
  /\ params' = [i \in Clients |-> AggregateResult(itr[Last])]
  /\ agg_done' = Append(agg_done, itr[Last])
  /\ pc' = "eval"
  /\ UNCHANGED <<mainVars, fsVars, train_calls, err, ci, clients, counterVars, mode,
                 grads, applied, loss, stats, evals, mean_log, agg_rounds>>

\* Line 83: the aggregate call raises, after it rewrote the parameters of some of the
\* clients (possibly none); nothing around the call catches the exception.
AggRaise ==
  /\ pc = "aggregate"
  /\ \E written \in SUBSET Clients :
       params' = [i \in Clients |-> IF i \in written
                                     THEN AggregateResult(itr[Last])
                                     ELSE params[i]]
  /\ Raise("aggregate")
  /\ UNCHANGED <<mainVars, fsVars, train_calls, ci, clients, counterVars, mode,
                 grads, applied, loss, stats, evals, mean_log, aggVars>>

AggActive == pc = "aggregate"

\* ------------------------------------------------------------ evaluation
\* Variant: the guard without the evaluation at the final round.
EvalGuardFrequencyOnly(i) == itr[i] % args.eval_freq = 0

\* Line 92: the evaluation guard, on the client's own counter.
EvalGuard(i) == itr[i] % args.eval_freq = 0 \/ itr[i] = args.iterations

\* The Evaluator's result for a model with parameters p (computed in optim/utils.py).
Evaluate(p) == [val_acc |-> p, val_loss |-> p, val_pp |-> p]

\* Where the evaluation loop goes after client i: the next client, or (lines 131-135,
\* which change nothing) the loop condition.
AfterEval(i) == IF i = Last THEN "while" ELSE "eval"

\* Variant: the gradients are left as the round's local step accumulated them.
ZeroGradKept(g, i) == g

\* Line 90: opt.zero_grad(set_to_none=True) drops client i's accumulated gradient.
ZeroGrad(g, i) == [g EXCEPT ![i] = NoGrad]

\* Lines 88-96: zero client ci's gradients; on the master, when the guard holds,
\* switch its model to inference mode.
EvalEnter ==
  /\ pc = "eval"
  /\ LET i == ci
     IN /\ grads' = ZeroGrad(grads, i)
        /\ IF EvalGuard(i) /\ is_master
             THEN /\ mode' = [mode EXCEPT ![i] = "eval"]
                  /\ pc' = "eval_body"
                  /\ ci' = ci
             ELSE /\ mode' = mode
                  /\ pc' = AfterEval(i)
                  /\ ci' = IF i = Last THEN 0 ELSE i + 1
  /\ UNCHANGED <<mainVars, fsVars, train_calls, err, clients, counterVars, applied,
                 params, loss, stats, evals, mean_log, aggVars>>

\* Lines 92-94: client ci is due on the master, and the epoch number divides by
\* num_substeps_per_epoch[i] (line 48: the train shard's length // (batch_size *
\* sequence_length)), which is 0 for a shard shorter than one batch: ZeroDivisionError
\* after zero_grad and before model.eval().  The shard is fixed for the run, so the
\* division can only fail the first time the client is due.
EvalEnterRaise ==
  /\ pc = "eval"
  /\ EvalGuard(ci)
  /\ is_master
  /\ evals[ci] = <<>>
  /\ grads' = ZeroGrad(grads, ci)
  /\ Raise("zero_division")
  /\ UNCHANGED <<mainVars, fsVars, train_calls, ci, clients, counterVars, mode, applied,
                 params, loss, stats, evals, mean_log, aggVars>>

\* Line 108-111: one entry appended to each of client i's four lists.
Record(st, i, train_loss, ev) ==
  [train_loss |-> [st.train_loss EXCEPT ![i] = Append(st.train_loss[i], train_loss)],
   val_loss |-> [st.val_loss EXCEPT ![i] = Append(st.val_loss[i], ev.val_loss)],
   val_pp |-> [st.val_pp EXCEPT ![i] = Append(st.val_pp[i], ev.val_pp)],
   val_acc |-> [st.val_acc EXCEPT ![i] = Append(st.val_acc[i], ev.val_acc)]]

\* Line 130: model.train()
RestoreMode(md, i) == [md EXCEPT ![i] = "train"]

\* Variant: the means emitted at the first client's evaluation.
MeanDueAtFirst(i) == args.wandb /\ i = 0

\* Lines 113-114: with extra_args.wandb set, the cross-client means are emitted at
\* the last client's evaluation.
MeanDue(i) == args.wandb /\ i = Last

\* Lines 115-120: each mean is taken over stats[...][c][-1] of every client c.  Per
\* client: the position of the entry read and the round whose evaluation recorded it.
MeanInputs(st, ev, r) ==
  [round |-> r,
   read |-> [c \in Clients |-> [pos |-> Len(st.val_loss[c]),
                                round |-> ev[c][Len(ev[c])]]]]

\* Variant: the learning rate obtained by advancing the schedule once more.
GetLastLrBySteppingSchedule(steps, i) == [steps EXCEPT ![i] = steps[i] + 1]

\* Line 98: scheduler.get_last_lr() reads the rate of the schedule's last step and
\* leaves the schedule where it is.
GetLastLr(steps, i) == steps

\* Lines 97-130: the Evaluator returns; the metrics are recorded and the model goes
\* back to training mode.
EvalBody ==
  /\ pc = "eval_body"
  /\ LET i == ci
         st == Record(stats, i, loss, Evaluate(params[i]))
         ev == [evals EXCEPT ![i] = Append(evals[i], itr[i])]
     IN /\ sched_steps' = IF clients[i + 1] # "None"
                            THEN GetLastLr(sched_steps, i)
                            ELSE sched_steps
        /\ stats' = st
        /\ evals' = ev
        /\ IF MeanDue(i) /\ \E c \in Clients : st.val_loss[c] = <<>>
             \* stats[...][c][-1] of an empty list: IndexError
             THEN /\ Raise("index")
                  /\ UNCHANGED <<mode, ci, mean_log>>
             ELSE /\ mean_log' = IF MeanDue(i)
                                   THEN Append(mean_log, MeanInputs(st, ev, itr[i]))
                                   ELSE mean_log
                  /\ mode' = RestoreMode(mode, i)
                  /\ pc' = AfterEval(i)
                  /\ ci' = IF i = Last THEN 0 ELSE i + 1
                  /\ err' = err
  /\ UNCHANGED <<mainVars, fsVars, train_calls, clients, itr, substep, opt_steps,
                 tensorVars, aggVars>>

\* Lines 113-128: a wandb.log call raises after the appends of lines 108-111: the
\* first one (the means, line 115), or the per-client one (line 121) after the means,
\* when due, were emitted.  Line 130 is not reached.
WandbRaise ==
  /\ pc = "eval_body"
  /\ args.wandb
  /\ LET i == ci
         st == Record(stats, i, loss, Evaluate(params[i]))
         ev == [evals EXCEPT ![i] = Append(evals[i], itr[i])]
     IN /\ sched_steps' = IF clients[i + 1] # "None"
                            THEN GetLastLr(sched_steps, i)
                            ELSE sched_steps
        /\ stats' = st
        /\ evals' = ev
        /\ \E in_means \in BOOLEAN :
             /\ in_means => MeanDue(i)
             /\ mean_log' = IF MeanDue(i) /\ ~in_means
                                /\ \A c \in Clients : st.val_loss[c] # <<>>
                              THEN Append(mean_log, MeanInputs(st, ev, itr[i]))
                              ELSE mean_log
  /\ Raise("wandb")
  /\ UNCHANGED <<mainVars, fsVars, train_calls, ci, clients, itr, substep, opt_steps,
                 mode, tensorVars, aggVars>>

\* Lines 97-100: the Evaluator (or the code around it) raises; line 130 is not reached.
EvalRaise ==
  /\ pc = "eval_body"
  /\ Raise("eval")
  /\ UNCHANGED <<mainVars, fsVars, train_calls, ci, clients, counterVars, mode,
                 tensorVars, stats, evals, mean_log, aggVars>>

Next ==
  \/ Setup
  \/ SetupRaise
  \/ GetDataset
  \/ BuildClient
  \/ BuildClientRaise
  \/ WandbInitRaise
  \/ MakedirsRaise
  \/ CheckCkpt
  \/ SelectTrain
  \/ TrainInit
  \/ TrainInitRaise
  \/ LoopCheck
  \/ LocalStep
  \/ LocalStepRaise
  \/ OptStepRaise
  \/ AggGuard
  \/ AggReturn
  \/ AggRaise
  \/ EvalEnter
  \/ EvalEnterRaise
  \/ EvalBody
  \/ EvalRaise
  \/ WandbRaise
  \/ OpenSummary
  \/ OpenSummaryRaise
  \/ WriteSummary
  \/ WriteSummaryRaise
  \/ Finalize
  \/ FinalizeRaise

Spec == Init /\ [][Next]_vars

\* The single control thread keeps running until main ends: every call is blocking
\* and nothing waits on another thread.
FairSpec == Spec /\ WF_vars(Next)
\* ================================================================ claims
TrainStarted == itr # <<>>

\* How often round r occurs in a history of rounds.
Count(seq, r) == Cardinality({n \in DOMAIN seq : seq[n] = r})

\* The cadence the specification states for aggregation in round r.
ShouldAggregate(r) ==
  r % args.trust_freq = 0 /\ r >= args.pretraining_rounds - 1

\* The aggregation guard of round r has been evaluated: a later round has begun, or
\* the thread is past the guard of the current round r = itr[-1].
GuardPassed(r) ==
  \/ r < itr[Last]
  \/ r = itr[Last] /\ pc # "agg_guard"

\* C1: aggregate is called in round r (r = the round counter after all clients'
\* local steps) if and only if r % f = 0 and r >= p - 1: only at such rounds of
\* 1..T, never twice in a round, and always once the guard of such a round was passed.
C1_AggregationCadence ==
  TrainStarted =>
    /\ \A n \in DOMAIN agg_rounds :
         /\ agg_rounds[n] \in 1..args.iterations
         /\ agg_rounds[n] <= itr[Last]
         /\ ShouldAggregate(agg_rounds[n])
    /\ \A r \in 1..args.iterations :
         /\ Count(agg_rounds, r) <= 1
         /\ (GuardPassed(r) /\ ShouldAggregate(r)) => Count(agg_rounds, r) = 1

\* A finished run in which the pretraining threshold held aggregation back in a round
\* the frequency alone would have chosen, and aggregation ran in a later round.
C1_Witness ==
  /\ pc = "done"
  /\ agg_rounds # <<>>
  /\ \E r \in 1..args.iterations :
       r % args.trust_freq = 0 /\ r < args.pretraining_rounds - 1

\* The scenario of section 8: 2 clients, 4 iterations, 1 accumulation step,
\* aggregation every 2 rounds.
Scenario(p) ==
  /\ args.num_clients = 2
  /\ args.iterations = 4
  /\ args.acc_steps = 1
  /\ args.trust_freq = 2
  /\ args.pretraining_rounds = p

IsPrefix(a, b) ==
  /\ Len(a) <= Len(b)
  /\ \A n \in DOMAIN a : a[n] = b[n]

\* C2 as stated: in the scenario, pretraining_rounds = 1 gives aggregation after
\* rounds 2 and 4, and pretraining_rounds = 3 gives aggregation after round 4 only.
C2_ScenarioAsStated ==
  (TrainStarted /\ pc \in AfterTrain) =>
    /\ Scenario(1) => agg_rounds = <<2, 4>>
    /\ Scenario(3) => agg_rounds = <<4>>

\* C2 amended: in the scenario aggregation runs after round 2 and after round 4, and
\* at no other round, with pretraining_rounds = 1 and also with pretraining_rounds = 3
\* (2 >= 3 - 1).
C2_ScenarioBothFireAtTwoAndFour ==
  (TrainStarted /\ (Scenario(1) \/ Scenario(3))) =>
    /\ IsPrefix(agg_rounds, <<2, 4>>)
    /\ GuardPassed(2) /\ itr[Last] >= 2 => Count(agg_rounds, 2) = 1
    /\ pc \in AfterTrain => agg_rounds = <<2, 4>>

\* The scenario with pretraining_rounds = 3 has run to its end.
C2_Witness ==
  /\ Scenario(3)
  /\ pc = "done"
  /\ agg_rounds = <<2, 4>>
\* Client i has completed its local step of round n: n rounds of micro-steps, n
\* optimizer steps, n schedule steps, counter at n.
LocalStepDone(i, n) ==
  /\ itr[i] = n
  /\ substep[i] = n * args.acc_steps
  /\ opt_steps[i] = n
  /\ sched_steps[i] = n

\* Every aggregate call made so far has returned, and the one due in round n (if any)
\* is among them.
AggregationSettled(n) ==
  /\ agg_done = agg_rounds
  /\ ~AggActive
  /\ (n >= 1 /\ ShouldAggregate(n)) => Count(agg_done, n) = 1

\* C3: in every round N all clients have completed their local step when the
\* aggregation guard is evaluated; an aggregation of round N has returned before any
\* local step of round N+1; and every evaluation of round N comes after the round's
\* aggregation returned, with all clients at round N.
C3_RoundOrdering ==
  TrainStarted =>
    /\ pc = "agg_guard" => \A i \in Clients : LocalStepDone(i, itr[Last])
    /\ pc = "local" => AggregationSettled(itr[Last])
    /\ pc \in {"eval", "eval_body"} =>
         /\ AggregationSettled(itr[Last])
         /\ \A i \in Clients : LocalStepDone(i, itr[Last])

\* The last of several clients is being evaluated in a round whose aggregation ran.
C3_Witness ==
  /\ pc = "eval_body"
  /\ args.num_clients >= 2
  /\ ci = Last
  /\ Count(agg_done, itr[Last]) = 1

\* C5: the clients' round counters are equal wherever the loop condition, the
\* aggregation guard or an evaluation guard is evaluated; inside the per-client loop
\* an earlier client is level with a later one or exactly one round ahead of it.
C5_LockStep ==
  TrainStarted =>
    /\ pc \in {"while", "agg_guard", "aggregate", "eval", "eval_body"} \cup AfterTrain =>
         \A i \in Clients : itr[i] = itr[Last]
    /\ \A i, j \in Clients : i < j => (itr[i] = itr[j] \/ itr[i] = itr[j] + 1)
    /\ pc = "local" =>
         \A i \in Clients : itr[i] = IF i < ci THEN itr[Last] + 1 ELSE itr[Last]

\* Inside the per-client loop of a later round: the first client has stepped, the
\* second has not.
C5_Witness ==
  /\ pc = "local"
  /\ ci = 1
  /\ itr[1] >= 1
  /\ itr[0] = itr[1] + 1
\* C6: train_lora ends (it returns, or a step raises), and when it returns every
\* client, not only the last, has done exactly T optimizer steps, T schedule steps
\* and T * k micro-steps with its counter at T; no schedule or optimizer is ever
\* stepped more than T times.
C6_TerminatesWithExactCounts ==
  /\ [](TrainStarted =>
          /\ \A i \in Clients :
               /\ sched_steps[i] <= args.iterations
               /\ itr[i] <= args.iterations
               /\ substep[i] <= args.iterations * args.acc_steps
          /\ pc \in AfterTrain =>
               \A i \in Clients : LocalStepDone(i, args.iterations))
  /\ (pc = "init") ~> (pc = "returned" \/ pc = "raised")

\* Two clients returned from a run of several rounds with two micro-steps each.
C6_Witness ==
  /\ pc = "returned"
  /\ args.num_clients = 2
  /\ args.iterations >= 2
  /\ args.acc_steps = 2
  /\ \A i \in Clients : LocalStepDone(i, args.iterations)
\* The cadence the specification states for evaluation in round r.
ShouldEvaluate(r) ==
  r % args.eval_freq = 0 \/ r = args.iterations

\* Client i's turn in the evaluation loop of round itr[i] is over: the evaluation loop
\* has passed it, or the next round's per-client loop has begun and not reached it.
EvalTurnOver(i) ==
  \/ pc \in {"while"} \cup AfterTrain
  \/ pc = "raised" /\ err \in AfterTrainErrors
  \/ pc \in {"eval", "eval_body"} /\ i < ci
  \/ pc = "raised" /\ err \in {"eval", "zero_division", "wandb", "index"} /\ i < ci
  \/ pc = "local" /\ i >= ci
  \/ pc = "raised" /\ err \in {"local_step", "opt_step", "scheduler_none"} /\ i >= ci

\* Client i's turn in the evaluation loop of round r is over.
EvalPassed(i, r) ==
  \/ r < itr[i]
  \/ r = itr[i] /\ EvalTurnOver(i)

EvalRounds == {r \in 1..args.iterations : ShouldEvaluate(r)}

MetricLengths(i) ==
  {Len(stats.train_loss[i]), Len(stats.val_loss[i]), Len(stats.val_pp[i]),
   Len(stats.val_acc[i])}

\* Every metric list of every client only grows at its end, by at most one entry a step.
AppendOnly ==
  \A i \in Clients :
    /\ IsPrefix(stats.train_loss[i], stats'.train_loss[i])
    /\ IsPrefix(stats.val_loss[i], stats'.val_loss[i])
    /\ IsPrefix(stats.val_pp[i], stats'.val_pp[i])
    /\ IsPrefix(stats.val_acc[i], stats'.val_acc[i])
    /\ Len(stats'.val_loss[i]) <= Len(stats.val_loss[i]) + 1

\* C7: on the master process client i is evaluated in round r if and only if
\* r % e = 0 or r = T; every evaluation adds one entry to each of the client's four
\* lists and nothing else changes them, so the four lists have one length, the number
\* of evaluations so far, and at return that is the number of rounds r in 1..T with
\* r % e = 0 or r = T, which is at least one when T >= 1.
C7_EvaluationCadence ==
  /\ [](TrainStarted /\ stats # <<>> =>
          \A i \in Clients :
            /\ MetricLengths(i) = {Len(evals[i])}
            /\ is_master =>
                 /\ \A n \in DOMAIN evals[i] :
                      evals[i][n] \in EvalRounds /\ evals[i][n] <= itr[i]
                 /\ \A r \in 1..args.iterations :
                      /\ Count(evals[i], r) <= 1
                      /\ (EvalPassed(i, r) /\ ShouldEvaluate(r)) => Count(evals[i], r) = 1
                 /\ pc \in AfterTrain =>
                      /\ Len(evals[i]) = Cardinality(EvalRounds)
                      /\ args.iterations >= 1 => Len(evals[i]) >= 1)
  /\ [][TrainStarted /\ stats # <<>> => AppendOnly]_vars

\* A master run of three rounds evaluated every second round has returned: both
\* clients were evaluated in round 2 and in the final round 3.
C7_Witness ==
  /\ pc = "returned"
  /\ is_master
  /\ args.num_clients = 2
  /\ args.iterations = 3
  /\ args.eval_freq = 2
  /\ \A i \in Clients : evals[i] = <<2, 3>> /\ Len(stats.val_acc[i]) = 2
\* C8: a client's model is in inference mode while the Evaluator runs on it and in
\* training mode whenever control is outside the evaluation step, also after the
\* Evaluator raised.
C8_TrainingModeRestored ==
  /\ pc = "eval_body" =>
       \A i \in Clients : mode[i] = IF i = ci THEN "eval" ELSE "train"
  /\ pc # "eval_body" => \A i \in Clients : mode[i] = "train"

NoTrainingStepYet ==
  \A i \in Clients :
    /\ opt_steps[i] = 0
    /\ sched_steps[i] = 0
    /\ TrainStarted => (itr[i] = 0 /\ substep[i] = 0)

\* train has returned to main: main is at lines 138-144 or raised there.
TrainReturned ==
  \/ pc \in AfterTrain
  \/ pc = "raised" /\ err \in AfterTrainErrors

\* The errors main can raise before it looks for summary.json (lines 46-116): set-up, the
\* dataset lookup, building a client (model, optimizer, schedule) and wandb.init.
BeforeSummaryCheck ==
  {"setup", "unbound_data_path", "build_client", "unknown_scheduler", "total_steps", "wandb_init"}

\* C10 as stated: when summary.json exists at the start, main exits with status 0
\* without training and without touching the file; summary.json is written at most
\* once and only after training returned.
C10_ExistingSummaryExitsZero ==
  /\ summary = "old" =>
       /\ train_calls = 0
       /\ NoTrainingStepYet
       /\ Terminated => ExitStatus = 0
  /\ summary_writes <= 1
  /\ summary_writes = 1 => (TrainReturned /\ train_calls = 1)

\* C10 amended: when summary.json exists at the start, main never invokes the
\* training routine and never changes the file, and it exits with status 0 unless an
\* error is raised before main looks for the file (in the dataset lookup, while a
\* client is built, or in wandb.init); summary.json is opened for writing at most once
\* and only after training returned.
C10_ExistingSummaryNeverRetrained ==
  /\ [](summary = "old" =>
          /\ summary_writes = 0
          /\ train_calls = 0
          /\ NoTrainingStepYet
          /\ Terminated =>
               \/ pc = "exit0" /\ ExitStatus = 0
               \/ pc = "raised" /\ err \in BeforeSummaryCheck)
  /\ [](/\ summary_writes <= 1
        /\ summary_writes = 1 =>
             (TrainReturned /\ train_calls = 1 /\ summary \in {"partial", "new"})
        /\ summary \in {"partial", "new"} => summary_writes = 1)
  /\ [][summary = "old" => summary' = "old"]_vars

\* main found the completed run's summary and stopped.
C10_Witness ==
  /\ pc = "exit0"
  /\ summary = "old"
  /\ train_calls = 0

\* The micro-step that produced the loss client i's evaluation in round r should
\* report: the last one of client i's own accumulation window of that round.
OwnLastMicroStep(i, r) == <<i, r, args.acc_steps - 1>>

\* C11: for every client i and every evaluation event, the train_loss entry appended
\* to client i's list is the loss of client i's own last micro-step of that round,
\* never a loss computed on another client's model or data.
C11_TrainLossIsOwn ==
  TrainStarted =>
    \A i \in Clients :
      /\ Len(stats.train_loss[i]) = Len(evals[i])
      /\ \A n \in DOMAIN stats.train_loss[i] :
           stats.train_loss[i][n] = OwnLastMicroStep(i, evals[i][n])

\* The gradients of the k micro-steps of one accumulation window of round r.
Window(r) == {<<r, m>> : m \in 0..(args.acc_steps - 1)}

\* C12 as stated: the gradient each optimizer step applies is exactly the sum of the
\* client's k micro-steps of that round, each scaled by 1/k; a client's gradient is
\* empty when its accumulation window starts, in the first round and in every later
\* one, so nothing of an earlier round is included.
C12_GradientIsPlainSum ==
  TrainStarted =>
    \A i \in Clients :
      /\ opt_steps[i] >= 1 =>
           applied[i] = [steps |-> Window(opt_steps[i]), norm |-> args.acc_steps]
      /\ (pc = "local" /\ i >= ci) => grads[i] = NoGrad
      /\ pc = "while" => grads[i] = NoGrad

\* The norm of the gradient an optimizer step applies to a window of k unit steps.
AppliedNorm ==
  IF args.grad_clip # 0 /\ args.acc_steps > args.grad_clip
    THEN args.grad_clip
    ELSE args.acc_steps

\* C12 amended: the gradient each optimizer step applies is made of exactly the
\* client's k micro-steps of that round (each scaled by 1/k): their sum when no clip
\* bound is configured (0.0) or the sum's norm is within the bound, and otherwise that
\* sum rescaled to the bound.  A client's gradient is empty when its accumulation
\* window starts, in the first round and in every later one, so nothing of an
\* earlier round is included.
C12_GradientIsOwnWindow ==
  TrainStarted =>
    \A i \in Clients :
      /\ opt_steps[i] >= 1 =>
           applied[i] = [steps |-> Window(opt_steps[i]), norm |-> AppliedNorm]
      /\ (pc = "local" /\ i >= ci) => grads[i] = NoGrad
      /\ pc = "while" => grads[i] = NoGrad

\* The second round's optimizer step of client 0 with two micro-steps per window,
\* clipped to the bound.
C12_Witness ==
  /\ TrainStarted
  /\ args.acc_steps = 2
  /\ args.grad_clip = 1
  /\ opt_steps[0] = 2
  /\ applied[0] = [steps |-> {<<2, 0>>, <<2, 1>>}, norm |-> 1]
  /\ pc = "agg_guard"

\* The thread is between the aggregation guard of a round and the loop condition that
\* precedes the next round's first local step (lines 81-135 and back to line 59).
AfterLocalSteps ==
  pc \in {"agg_guard", "aggregate", "eval", "eval_body", "while"}

\* C13: between the aggregation guard of round N and the first local step of round
\* N+1 no client's optimizer step count, schedule step count, round counter itr[i] or
\* micro-step counter substep[i] is modified, whether or not any client is evaluated.
C13_EvaluationLeavesCounters ==
  [][AfterLocalSteps =>
       /\ itr' = itr
       /\ substep' = substep
       /\ opt_steps' = opt_steps
       /\ sched_steps' = sched_steps]_vars

\* Round 2 is over, its evaluation scored the last client, and every count is 2.
C13_Witness ==
  /\ TrainStarted
  /\ pc = "while"
  /\ Len(evals[Last]) >= 1
  /\ evals[Last][Len(evals[Last])] = 2
  /\ \A i \in Clients :
       /\ itr[i] = 2
       /\ opt_steps[i] = 2
       /\ sched_steps[i] = 2
       /\ substep[i] = 2 * args.acc_steps

\* C15: in every round each client's gradients are zeroed as part of that client's
\* own local step, after its optimizer step, schedule step and counter advance and
\* before the round's aggregation guard is evaluated, so whenever the aggregation is
\* invoked every client's gradients are already zeroed.
C15_GradsZeroedBeforeAggregation ==
  TrainStarted =>
    \A i \in Clients :
      /\ (pc = "local" /\ i < ci) => grads[i] = NoGrad
      /\ pc \in {"agg_guard", "aggregate"} => grads[i] = NoGrad

\* C16: whenever the cross-client means are emitted (at the last client's
\* evaluation), every client already has at least one entry in each metric list and
\* the last entry of every client was recorded in the current round's evaluation: a
\* mean never reads an empty list and never mixes entries of different evaluation
\* events.  With extra_args.wandb set one emission is made per evaluation event
\* (none by the event whose wandb.log call raised), without it none at all.
C16_MeanOverCurrentRound ==
  TrainStarted =>
    /\ err # "index"
    /\ \A n \in DOMAIN mean_log :
         \A c \in Clients :
           /\ mean_log[n].read[c].pos >= 1
           /\ mean_log[n].read[c].pos = n
           /\ mean_log[n].read[c].round = mean_log[n].round
    /\ ~args.wandb => mean_log = <<>>
    /\ args.wandb =>
         \/ Len(mean_log) = Len(evals[Last])
         \/ /\ pc = "raised"
            /\ err = "wandb"
            /\ ci = Last
            /\ Len(mean_log) + 1 = Len(evals[Last])

\* The second emission of a two-client run: both entries read are the second ones,
\* recorded in the round of the emission.
C16_Witness ==
  /\ TrainStarted
  /\ args.wandb
  /\ args.num_clients = 2
  /\ Len(mean_log) = 2
  /\ mean_log[2].round = itr[Last]
  /\ mean_log[2].read[0] = [pos |-> 2, round |-> itr[Last]]
  /\ mean_log[2].read[1] = [pos |-> 2, round |-> itr[Last]]
  /\ pc = "while"

\* C17: with scheduler 'none' (main stores None as every client's schedule) every
\* client's local step still completes without raising on the missing schedule: the
\* optimizer step is applied once per round and the counter advances with it, so the
\* run can reach the configured number of rounds.
C17_NoneSchedulerRuns ==
  (TrainStarted /\ args.scheduler = "none") =>
    /\ err # "scheduler_none"
    /\ \A i \in Clients :
         /\ EvalTurnOver(i) => opt_steps[i] = itr[i]
         /\ pc \in AfterTrain => itr[i] = args.iterations

\* C18: summary.json is written only by the master process and only after the
\* training routine returned normally with every client at the configured number of
\* rounds; an error raised during a local step, the aggregation or the evaluation
\* propagates out of main and leaves no summary.json, so a failed or partial run is
\* never detected later as a completed one.
C18_SummaryOnlyAfterCompleteRun ==
  /\ summary \in {"partial", "new"} =>
       /\ TrainStarted
       /\ is_master
       /\ TrainReturned
       /\ \A i \in Clients : itr[i] = args.iterations /\ opt_steps[i] = args.iterations
  /\ ~is_master => summary_writes = 0
  /\ (pc = "raised" /\ TrainStarted /\ ~TrainReturned) => summary = "absent"
  /\ (pc = "raised" /\ TrainStarted) => ~AlreadyCompleted
====
